---- MODULE Spec2Model ----
(***************************************************************************)
(* Access enforcement of the Zero Trust document platform.                 *)
(*                                                                         *)
(* The state is the persistent store (files, file_shares, activity_logs),  *)
(* the upload directory, the Celery queue of scan jobs, and `last`, the    *)
(* observation of the most recent request: what the handler resolved, what *)
(* it sent to the policy engine, and what the caller received.  A handler  *)
(* is one step; Respond ends the request and clears the observation.       *)
(*                                                                         *)
(* `docs` is what the files of the upload directory contain, `jobs` the    *)
(* runs of scan_file_task (finished runs stay, as the worker's log), and   *)
(* `requests` the share requests that have run their queries and not yet   *)
(* committed.                                                              *)
(*                                                                         *)
(* Strings that the code builds with f-strings and "; ".join are modelled  *)
(* as sequences of tokens, so that "the detail contains the reasons" is a  *)
(* statement about the text actually built.                                *)
(***************************************************************************)
EXTENDS Integers, Sequences, FiniteSets, TLC

VARIABLES files, shares, disk, queue, log, nextId, last, docs, jobs, requests

vars == <<files, shares, disk, queue, log, nextId, last, docs, jobs, requests>>

\* ------------------------------------------------------------------ bounds
MaxFiles == 1
MaxLog == 2
\* Paragraphs, pages or cells of one document.
MaxUnits == 2
\* Runs of scan_file_task.
MaxJobs == 2
\* Share requests that overlap.
MaxInFlight == 2

\* ------------------------------------------------------------------- users
\* models.User rows; authentication (get_current_user) has already succeeded.
Users == {"alice", "bob", "root"}

role == [u \in Users |-> IF u = "root" THEN "admin" ELSE "employee"]

\* A username no User row has (share target lookups).
UnknownUser == "ghost"

FileIds == 1..MaxFiles

FileNames == {"report.txt", "tool.exe"}

\* Every name a stored document can have.
Names == FileNames \cup {"notes.docx", "scan.pdf", "sheet.xlsx", "photo.png"}

\* Path(name).suffix.lower()
suffix ==
    [n \in Names |->
        CASE n = "report.txt" -> ".txt"
          [] n = "notes.docx" -> ".docx"
          [] n = "scan.pdf" -> ".pdf"
          [] n = "sheet.xlsx" -> ".xlsx"
          [] n = "photo.png" -> ".png"
          [] OTHER -> ".exe"]

\* models.Permission
Permission == {"view", "download"}

\* request.client.host and the user-agent header: one fixed client.
ClientIp == "10.0.0.7"
UserAgent == "agent/1.0"
None == "None"

\* The X-Sim-Mode header each client sends: bob's client is the attack
\* simulator and sends "attack" with every request.
is_attack == [u \in Users |-> u = "bob"]

\* --------------------------------------------------------- policy engine
\* What requests.post(OPA_URL, ...) can produce.  transport is the exception
\* requests raises, or "response"; status is the HTTP status of a response;
\* body says how the body parses: not JSON, a JSON array, or a JSON object
\* whose "result" member is missing, null, a string or an object; allow and
\* deny_reasons are the members of that object.  decode is the exception
\* class response.json() raises on an unparsable body: requests >= 2.27
\* raises requests.exceptions.JSONDecodeError (a RequestException), older
\* releases let the json module's ValueError through.
DenyReasons == {"insufficient permission", "outside business hours"}

ReasonLists ==
    { <<>>,
      <<"insufficient permission">>,
      <<"insufficient permission", "outside business hours">>,
      <<"outside business hours", "insufficient permission">> }

Missing == [kind |-> "missing", items |-> <<>>]
Null == [kind |-> "null", items |-> <<>>]
List(l) == [kind |-> "list", items |-> l]

Reply(t, s, b, r, a, d, x) ==
    [transport |-> t, status |-> s, body |-> b, result |-> r, allow |-> a,
     deny_reasons |-> d, decode |-> x]

ObjectReply(s, a, d) == Reply("response", s, "object", "object", a, d, "-")

TransportFailures ==
    { Reply(t, 0, "-", "-", "-", Missing, "-") : t \in {"ConnectionError", "Timeout"} }

\* Final responses whose status is not 2xx; their bodies are whatever the
\* server sent, here a well-formed allow.
StatusFailures ==
    { ObjectReply(s, "true", List(<<>>)) : s \in {300, 403, 500} }

WellFormed ==
    { ObjectReply(200, "true", List(<<>>)) }
    \cup { ObjectReply(200, "false", List(l)) : l \in ReasonLists \ {<<>>} }

\* 2xx responses that do not have the shape {result: {allow, deny_reasons}}.
Unparsable ==
    { Reply("response", 200, "not_json", "-", "-", Missing, x) :
        x \in {"RequestException", "ValueError"} }

WrongShape ==
    { Reply("response", 200, "array", "-", "-", Missing, "-") }
    \cup { Reply("response", 200, "object", r, "-", Missing, "-") :
            r \in {"missing", "null", "string"} }
    \cup { ObjectReply(200, a, d) :
            a \in {"missing", "null", "'no'"},
            d \in {Missing, List(<<"insufficient permission">>)} }

\* 2xx responses of the right shape that break PolicyVerdict's own rule, or
\* whose deny_reasons is not a list.
OddVerdicts ==
    { ObjectReply(200, "true", List(<<"insufficient permission">>)),
      ObjectReply(200, "false", List(<<>>)),
      ObjectReply(200, "false", Missing),
      ObjectReply(200, "false", Null) }

Malformed == Unparsable \cup WrongShape

Replies ==
    TransportFailures \cup StatusFailures \cup WellFormed \cup Malformed
    \cup OddVerdicts

\* Python truthiness of the value the verdict carries in "allow".
Truthy(v) == v \in {"True", "'no'"}

UnreachableReason == "Internal Security Error: Policy Engine Unreachable"

Verdict(raised, a, r) == [raised |-> raised, allow |-> a, reasons |-> r]

FailClosed == Verdict("-", "False", List(<<UnreachableReason>>))

\* response.raise_for_status(): HTTPError for 400 <= status < 600.
raise_for_status(reply) == 400 <= reply.status /\ reply.status < 600

\* JSON value -> Python value, as response.json() gives it.
PyValue(a) ==
    CASE a = "true" -> "True"
      [] a = "false" -> "False"
      [] a = "null" -> "None"
      [] OTHER -> a

\* evaluate_request.  The result is the returned dict, or the exception that
\* leaves the function (raised # "-").
evaluate_request(reply) ==
    IF reply.transport # "response" THEN FailClosed
    ELSE IF raise_for_status(reply) THEN FailClosed
    ELSE IF reply.body = "not_json"
         THEN IF reply.decode = "RequestException" THEN FailClosed
              ELSE Verdict("ValueError", "-", Missing)
    ELSE IF reply.body = "array" THEN Verdict("AttributeError", "-", Missing)
    ELSE IF reply.result = "missing" THEN Verdict("-", "False", List(<<>>))
    ELSE IF reply.result # "object" THEN Verdict("AttributeError", "-", Missing)
    ELSE Verdict("-",
                 IF reply.allow = "missing" THEN "False" ELSE PyValue(reply.allow),
                 IF reply.deny_reasons.kind = "missing" THEN List(<<>>)
                 ELSE reply.deny_reasons)

\* ---------------------------------------------------------------- strings
\* Mutant of Join: only the first reason is kept.
JoinFirstOnly(l) == IF l = <<>> THEN <<>> ELSE <<Head(l)>>

\* "; ".join(reasons)
RECURSIVE Join(_)
Join(l) ==
    IF l = <<>> THEN <<>>
    ELSE IF Len(l) = 1 THEN l
    ELSE <<Head(l), "; ">> \o Join(Tail(l))

\* --------------------------------------------------------------- audit log
\* log_service.log_activity: the ActivityLog row it adds and commits.
log_activity(username, action, status, ip, user_agent, resource_id, details, is_simulated_attack) ==
    [username |-> username, action |-> action, status |-> status,
     ip_address |-> ip, user_agent |-> user_agent,
     resource_id |-> resource_id,
     details |-> IF is_simulated_attack THEN details \o <<" [SIM_ATTACK]">>
                 ELSE details]

\* ------------------------------------------------------------ observation
NoContext ==
    [user_id |-> "-", username |-> "-", user_role |-> "-",
     ip_address |-> "-", resource_sensitivity |-> "-",
     user_permission |-> "-", action |-> "-"]

NoVerdict == Verdict("-", "-", Missing)

NoReply == Reply("-", 0, "-", "-", "-", Missing, "-")

\* HTTP outcome seen by the caller.
Http(status, detail, content) ==
    [status |-> status, detail |-> detail, content |-> content]

Observation(op, u, f, existed, capability, called, context, reply, verdict, response, logged) ==
    [op |-> op, user |-> u, file |-> f, existed |-> existed,
     capability |-> capability, called |-> called, context |-> context,
     reply |-> reply, verdict |-> verdict, response |-> response,
     logged |-> logged]

Idle ==
    Observation("-", "-", 0, FALSE, "-", FALSE, NoContext, NoReply, NoVerdict,
                Http(0, <<>>, "-"), 0)

\* ------------------------------------------------------------------ store
\* db.query(models.FileShare).filter(file_id == f, user_id == u).first()
ShareRows(f, u) ==
    { i \in 1..Len(shares) : shares[i].file_id = f /\ shares[i].user_id = u }

HasShare(f, u) == ShareRows(f, u) # {}

FirstShare(f, u) ==
    shares[CHOOSE i \in ShareRows(f, u) : \A j \in ShareRows(f, u) : i <= j]

\* Mutant of AccessContext: the sensitivity is the one the row was created
\* with.
AccessContextAtCreation(u, f, permission, action) ==
    [user_id |-> u, username |-> u, user_role |-> role[u],
     ip_address |-> ClientIp,
     resource_sensitivity |-> "pending",
     user_permission |-> permission, action |-> action]

AccessContext(u, f, permission, action) ==
    [user_id |-> u, username |-> u, user_role |-> role[u],
     ip_address |-> ClientIp,
     resource_sensitivity |-> files[f].sensitivity_level,
     user_permission |-> permission, action |-> action]

Init ==
    /\ files = <<>>
    /\ shares = <<>>
    /\ disk = {}
    /\ queue = <<>>
    /\ log = <<>>
    /\ nextId = 1
    /\ last = Idle
    /\ docs = <<>>
    /\ jobs = <<>>
    /\ requests = <<>>

\* ----------------------------------------------------------------- effects
\* What one request does: the observation it leaves, the ActivityLog rows it
\* commits (in order), and the store after it.
Effect(obs, logs, fs, sh, dk, qu, nid) ==
    [obs |-> obs, logs |-> logs, files |-> fs, shares |-> sh, disk |-> dk,
     queue |-> qu, nextId |-> nid]

\* A request that changes nothing but the audit log.
ReadOnly(obs, logs) == Effect(obs, logs, files, shares, disk, queue, nextId)

NotFound(op, u, f) ==
    ReadOnly(Observation(op, u, f, FALSE, "-", FALSE, NoContext, NoReply,
                         NoVerdict, Http(404, <<"File not found">>, "-"), 0),
             <<>>)

\* An exception that no handler catches: FastAPI answers 500.
ServerError(op, u, f, capability, context, reply, verdict) ==
    ReadOnly(Observation(op, u, f, TRUE, capability, TRUE, context, reply,
                         verdict, Http(500, <<"Internal Server Error">>, "-"),
                         0),
             <<>>)

\* ---------------------------------------------------------------- download
\* Mutant of download_permission: an actor with no FileShare row is given
\* the weakest share permission instead of none.
download_permission_default_view(u, f) ==
    IF role[u] = "admin" THEN "ADMIN_OVERRIDE"
    ELSE IF files[f].owner_id = u THEN "OWNER"
    ELSE IF HasShare(f, u) THEN FirstShare(f, u).permission
    ELSE "view"

\* Capability resolution of download_file.
download_permission(u, f) ==
    IF role[u] = "admin" THEN "ADMIN_OVERRIDE"
    ELSE IF files[f].owner_id = u THEN "OWNER"
    ELSE IF HasShare(f, u) THEN FirstShare(f, u).permission
    ELSE "NONE"

\* The rejection download_file gives an actor with no capability.
download_none(u, f) ==
    ReadOnly(Observation("download", u, f, TRUE, "NONE", FALSE, NoContext,
                         NoReply, NoVerdict,
                         Http(404, <<"File not found">>, "-"), 0),
             <<>>)

\* The branch of download_file taken when the decision is not truthy.
download_denied(u, f, permission, context, reply, decision) ==
    IF decision.reasons.kind # "list"
    THEN \* "; ".join(None) raises TypeError
         ServerError("download", u, f, permission, context, reply, decision)
    ELSE LET reasons_str == Join(decision.reasons.items) IN
         ReadOnly(
            Observation("download", u, f, TRUE, permission, TRUE, context,
                        reply, decision,
                        Http(403,
                             <<"Access Denied by Policy. Reasons: ">>
                                \o reasons_str,
                             "-"),
                        1),
            << log_activity(u, "DOWNLOAD_ATTEMPT", "DENIED_BY_POLICY",
                            ClientIp, None, f,
                            <<"Role: ", context.user_role, ". Reasons: ">>
                               \o reasons_str,
                            is_attack[u]) >>)

\* The branch of download_file taken when the decision is truthy.
download_allowed(u, f, permission, context, reply, decision) ==
    ReadOnly(Observation("download", u, f, TRUE, permission, TRUE, context,
                         reply, decision, Http(200, <<>>, "file"), 0),
             <<>>)

\* download_file from the AccessContext on: the policy engine is asked and
\* its decision enforced.
download_enforce(u, f, permission, reply) ==
    LET context == AccessContext(u, f, permission, "download")
        decision == evaluate_request(reply)
    IN  IF decision.raised # "-"
        THEN ServerError("download", u, f, permission, context, reply,
                         decision)
        ELSE IF ~Truthy(decision.allow)
        THEN download_denied(u, f, permission, context, reply, decision)
        ELSE download_allowed(u, f, permission, context, reply, decision)

\* Mutant of download_file: ADMIN_OVERRIDE returns the file without asking
\* the policy engine.
download_file_admin_bypass(u, f, reply) ==
    IF f \notin DOMAIN files THEN NotFound("download", u, f)
    ELSE LET permission == download_permission(u, f) IN
         IF permission = "NONE" THEN download_none(u, f)
         ELSE IF permission = "ADMIN_OVERRIDE"
         THEN ReadOnly(Observation("download", u, f, TRUE, permission, FALSE,
                                   NoContext, NoReply, NoVerdict,
                                   Http(200, <<>>, "file"), 0),
                       <<>>)
         ELSE download_enforce(u, f, permission, reply)

download_file(u, f, reply) ==
    IF f \notin DOMAIN files THEN NotFound("download", u, f)
    ELSE LET permission == download_permission(u, f) IN
         IF permission = "NONE" THEN download_none(u, f)
         ELSE download_enforce(u, f, permission, reply)

\* -------------------------------------------------------------------- view
\* Mutant of view_permission: ownership is tested before the role.
view_permission_owner_first(u, f) ==
    IF files[f].owner_id = u THEN "OWNER"
    ELSE IF role[u] = "admin" THEN "ADMIN_OVERRIDE"
    ELSE IF HasShare(f, u) THEN FirstShare(f, u).permission
    ELSE "NONE"

\* Capability resolution of view_file.
view_permission(u, f) ==
    IF role[u] = "admin" THEN "ADMIN_OVERRIDE"
    ELSE IF files[f].owner_id = u THEN "OWNER"
    ELSE IF HasShare(f, u) THEN FirstShare(f, u).permission
    ELSE "NONE"

\* The rejection view_file gives an actor with no capability.
view_none(u, f) ==
    ReadOnly(Observation("view", u, f, TRUE, "NONE", FALSE, NoContext,
                         NoReply, NoVerdict,
                         Http(403, <<"Not authorized">>, "-"), 1),
             << log_activity(u, "VIEW_ATTEMPT", "FAILURE", None, None, f,
                             <<"User has no rights to this file.">>,
                             FALSE) >>)

view_denied(u, f, permission, context, reply, decision) ==
    IF decision.reasons.kind # "list"
    THEN ServerError("view", u, f, permission, context, reply, decision)
    ELSE LET reasons_str == Join(decision.reasons.items) IN
         ReadOnly(
            Observation("view", u, f, TRUE, permission, TRUE, context, reply,
                        decision,
                        Http(403, <<"Access Denied by Policy">>, "-"), 1),
            << log_activity(u, "VIEW_ATTEMPT", "DENIED_BY_POLICY", ClientIp,
                            UserAgent, f, <<"Reasons: ">> \o reasons_str,
                            is_attack[u]) >>)

\* watermark_service.create_watermarked_file: TRUE when it returns an image
\* stream, FALSE when it returns None (no renderer for the suffix, or any
\* exception while reading or rendering the file).
WatermarkSuffixes == {".png", ".jpg", ".jpeg", ".pdf", ".docx", ".txt"}

create_watermarked_file(f, render_ok) ==
    /\ suffix[files[f].filename] \in WatermarkSuffixes
    /\ f \in disk
    /\ render_ok

view_allowed(u, f, permission, context, reply, decision, render_ok) ==
    IF ~create_watermarked_file(f, render_ok)
    THEN ReadOnly(
            Observation("view", u, f, TRUE, permission, TRUE, context, reply,
                        decision,
                        Http(400,
                             <<"File type not supported for secure viewing">>,
                             "-"),
                        1),
            << log_activity(u, "VIEW_ERROR", "FAILURE", None, None, f,
                            <<"File type not supported for watermarking">>,
                            is_attack[u]) >>)
    ELSE ReadOnly(
            Observation("view", u, f, TRUE, permission, TRUE, context, reply,
                        decision, Http(200, <<>>, "watermarked"), 1),
            << log_activity(u, "VIEW", "SUCCESS", ClientIp, UserAgent, f,
                            <<"Successfully viewed the file">>, is_attack[u]) >>)

\* view_file from the AccessContext on.
view_enforce(u, f, permission, reply, render_ok) ==
    LET context == AccessContext(u, f, permission, "read")
        decision == evaluate_request(reply)
    IN  IF decision.raised # "-"
        THEN ServerError("view", u, f, permission, context, reply, decision)
        ELSE IF ~Truthy(decision.allow)
        THEN view_denied(u, f, permission, context, reply, decision)
        ELSE view_allowed(u, f, permission, context, reply, decision,
                          render_ok)

view_file(u, f, reply, render_ok) ==
    IF f \notin DOMAIN files THEN NotFound("view", u, f)
    ELSE LET permission == view_permission(u, f) IN
         IF permission = "NONE" THEN view_none(u, f)
         ELSE view_enforce(u, f, permission, reply, render_ok)

\* ------------------------------------------------------------------ delete
Plain(op, u, f, existed, response, logged) ==
    Observation(op, u, f, existed, "-", FALSE, NoContext, NoReply, NoVerdict,
                response, logged)

Without(fs, f) == [i \in DOMAIN fs \ {f} |-> fs[i]]

\* cascade="all, delete-orphan" on File.shares
SharesWithout(f) == SelectSeq(shares, LAMBDA s : s.file_id # f)

delete_unauthorized(u, f) ==
    ReadOnly(Plain("delete", u, f, TRUE,
                   Http(403, <<"Not authorized to delete this file">>, "-"),
                   1),
             << log_activity(u, "DELETE_ATTEMPT", "FAILURE", None, None, f,
                             <<"User is not the owner.">>, FALSE) >>)

\* Mutant of delete_file: a failed os.remove ends the request with an
\* error, the row stays.
delete_file_failing_on_oserror(u, f, remove_ok) ==
    IF f \notin DOMAIN files THEN NotFound("delete", u, f)
    ELSE IF role[u] # "admin" /\ files[f].owner_id # u
    THEN delete_unauthorized(u, f)
    ELSE IF f \in disk /\ ~remove_ok
    THEN ReadOnly(Plain("delete", u, f, TRUE,
                        Http(500, <<"Internal Server Error">>, "-"), 1),
                  << log_activity(u, "DELETE_ERROR", "PARTIAL_FAILURE", None,
                                  None, f, <<"OSError">>, FALSE) >>)
    ELSE Effect(Plain("delete", u, f, TRUE,
                      Http(200,
                           <<"Successfully deleted file: ", files[f].filename>>,
                           "-"),
                      1),
                << log_activity(u, "DELETE", "SUCCESS", None, None, f,
                                <<"Filename: ", files[f].filename>>, FALSE) >>,
                Without(files, f), SharesWithout(f), disk \ {f}, queue, nextId)

delete_file(u, f, remove_ok) ==
    IF f \notin DOMAIN files THEN NotFound("delete", u, f)
    ELSE IF role[u] # "admin" /\ files[f].owner_id # u
    THEN delete_unauthorized(u, f)
    ELSE LET failed == f \in disk /\ ~remove_ok
             partial ==
                IF failed
                THEN << log_activity(u, "DELETE_ERROR", "PARTIAL_FAILURE",
                                     None, None, f,
                                     <<"Database record deleted, but disk file remained: ",
                                       "OSError">>,
                                     FALSE) >>
                ELSE <<>>
             done ==
                << log_activity(u, "DELETE", "SUCCESS", None, None, f,
                                <<"Filename: ", files[f].filename>>, FALSE) >>
         IN  Effect(Plain("delete", u, f, TRUE,
                          Http(200,
                               <<"Successfully deleted file: ",
                                 files[f].filename>>,
                               "-"),
                          Len(partial) + 1),
                    partial \o done,
                    Without(files, f), SharesWithout(f),
                    IF failed THEN disk ELSE disk \ {f},
                    queue, nextId)

\* ------------------------------------------------------------------- share
\* Mutant of share_file: an administrator may share any file.
share_file_admin_allowed(u, f, target, permission) ==
    IF f \notin DOMAIN files THEN NotFound("share", u, f)
    ELSE IF files[f].owner_id # u /\ role[u] # "admin"
    THEN ReadOnly(Plain("share", u, f, TRUE,
                        Http(404, <<"File not found">>, "-"), 0),
                  <<>>)
    ELSE IF target \notin Users
    THEN ReadOnly(Plain("share", u, f, TRUE,
                        Http(404, <<"Target user not found">>, "-"), 0),
                  <<>>)
    ELSE Effect(Plain("share", u, f, TRUE, Http(200, <<"ok">>, "-"), 1),
                << log_activity(u, "SHARE", "SUCCESS", None, None, f,
                                <<"Shared with ", target, " as ", permission>>,
                                FALSE) >>,
                files,
                IF HasShare(f, target)
                THEN [shares EXCEPT ![CHOOSE i \in ShareRows(f, target) :
                                        \A j \in ShareRows(f, target) : i <= j]
                                     .permission = permission]
                ELSE Append(shares, [file_id |-> f, user_id |-> target,
                                     permission |-> permission]),
                disk, queue, nextId)

share_file(u, f, target, permission) ==
    IF f \notin DOMAIN files THEN NotFound("share", u, f)
    ELSE IF files[f].owner_id # u
    THEN ReadOnly(Plain("share", u, f, TRUE,
                        Http(404, <<"File not found">>, "-"), 0),
                  <<>>)
    ELSE IF target \notin Users
    THEN ReadOnly(Plain("share", u, f, TRUE,
                        Http(404, <<"Target user not found">>, "-"), 0),
                  <<>>)
    ELSE LET rows == ShareRows(f, target)
             first == CHOOSE i \in rows : \A j \in rows : i <= j
             updated ==
                IF rows # {}
                THEN [shares EXCEPT ![first].permission = permission]
                ELSE Append(shares,
                            [file_id |-> f, user_id |-> target,
                             permission |-> permission])
         IN  Effect(Plain("share", u, f, TRUE, Http(200, <<"ok">>, "-"), 1),
                    << log_activity(u, "SHARE", "SUCCESS", None, None, f,
                                    <<"Shared with ", target, " as ",
                                      permission>>,
                                    FALSE) >>,
                    files, updated, disk, queue, nextId)

\* ------------------------------------------------------------------ upload
\* Mutant of save_upload_file: a new row counts as scanned and clean.
save_upload_file_clean(u, name) ==
    [filename |-> name, owner_id |-> u, sensitivity_level |-> "Clean"]

\* file_service.save_upload_file: the new File row (sensitivity_level takes
\* the column default).
save_upload_file(u, name) ==
    [filename |-> name, owner_id |-> u, sensitivity_level |-> "pending"]

\* Mutant of upload_file: no scan job is sent.
upload_file_without_job(u, name, write_ok) ==
    IF ~write_ok
    THEN ReadOnly(Plain("upload", u, nextId, FALSE,
                        Http(500, <<"Could not save file.">>, "-"), 0),
                  <<>>)
    ELSE Effect(Plain("upload", u, nextId, FALSE, Http(200, <<>>, "-"), 1),
                << log_activity(u, "UPLOAD", "SUCCESS", None, UserAgent,
                                nextId, <<"Filename: ", name>>, is_attack[u]) >>,
                files @@ (nextId :> save_upload_file(u, name)),
                shares, disk \cup {nextId}, queue, nextId + 1)

\* upload_file for one uploaded file.
upload_file(u, name, write_ok) ==
    IF ~write_ok
    THEN ReadOnly(Plain("upload", u, nextId, FALSE,
                        Http(500, <<"Could not save file.">>, "-"), 0),
                  <<>>)
    ELSE Effect(Plain("upload", u, nextId, FALSE, Http(200, <<>>, "-"), 1),
                << log_activity(u, "UPLOAD", "SUCCESS", None, UserAgent,
                                nextId, <<"Filename: ", name>>, is_attack[u]) >>,
                files @@ (nextId :> save_upload_file(u, name)),
                shares, disk \cup {nextId}, Append(queue, nextId),
                nextId + 1)

\* --------------------------------------------------------------- documents
\* What a stored file contains, as far as scan_file_task can tell.  A
\* document is a sequence of units (the lines of a text file, the paragraphs
\* of a .docx, the pages of a .pdf, the cells of a workbook that iter_rows
\* yields); corrupt says that the library cannot open the file at all.  A
\* unit is blank (no text, or whitespace only) or carries text, and with the
\* text the entities that ner_pipeline reports for it; an unreadable unit is
\* a page whose extract_text() raises.  Scores are in units of 0.00001.
EntityGroups == {"PERSON", "LOCATION", "FIRSTNAME"}

Scores == {80000, 94996, 95000, 98000}

Entity(g, s) == [entity_group |-> g, score |-> s]

Unit(readable, blank, entities) ==
    [readable |-> readable, blank |-> blank, entities |-> entities]

Blank == Unit(TRUE, TRUE, <<>>)

Words == Unit(TRUE, FALSE, <<>>)

Unreadable == Unit(FALSE, FALSE, <<>>)

Mention(g, s) == Unit(TRUE, FALSE, <<Entity(g, s)>>)

ReadableUnits ==
    {Blank, Words} \cup { Mention(g, s) : g \in EntityGroups, s \in Scores }

UpTo(S) == UNION { [1..n -> S] : n \in 0..MaxUnits }

Document(corrupt, units) == [corrupt |-> corrupt, units |-> units]

EmptyDocument == Document(FALSE, <<>>)

Corrupt == Document(TRUE, <<>>)

\* The documents a file of the given name can be.
Documents(name) ==
    CASE suffix[name] = ".txt" ->
            { Document(FALSE, us) : us \in UpTo(ReadableUnits) }
      [] suffix[name] \in {".docx", ".xlsx"} ->
            { Document(FALSE, us) : us \in UpTo(ReadableUnits) } \cup {Corrupt}
      [] suffix[name] = ".pdf" ->
            { Document(FALSE, us) : us \in UpTo(ReadableUnits \cup {Unreadable}) }
            \cup {Corrupt}
      [] OTHER -> {EmptyDocument}

\* One document per name, for the requests that upload.
Sample ==
    [n \in Names |->
        CASE n = "report.txt" -> Document(FALSE, <<Mention("PERSON", 98000)>>)
          [] n = "notes.docx" -> Corrupt
          [] n = "scan.pdf" -> Document(FALSE, <<Mention("LOCATION", 95000)>>)
          [] n = "sheet.xlsx" -> Document(FALSE, <<Mention("PERSON", 80000)>>)
          [] OTHER -> EmptyDocument]

\* --------------------------------------------------------------- detector
CONFIDENCE_THRESHOLD == 95000

\* round(score, 4): the result is in units of 0.0001.
round4(score) == (score + 5) \div 10

\* ner_pipeline(text): the entities of the units of the text, in order.
RECURSIVE ner_pipeline(_)
ner_pipeline(text) ==
    IF text = <<>> THEN <<>>
    ELSE Head(text).entities \o ner_pipeline(Tail(text))

Finding(type, score, location) ==
    [type |-> type, score |-> score, location |-> location]

\* Mutant of scan_text_for_pii: the score is compared after rounding.
scan_text_for_pii_rounded_first(text, ner_ok) ==
    IF ~ner_ok THEN <<>>
    ELSE LET kept == SelectSeq(ner_pipeline(text),
                               LAMBDA e : round4(e.score) * 10 >= CONFIDENCE_THRESHOLD)
         IN  [i \in 1..Len(kept) |->
                Finding(kept[i].entity_group, round4(kept[i].score), 0)]

\* nlp_service.scan_text_for_pii.  ner_ok = FALSE: ner_pipeline raises, the
\* exception is printed and the empty list is returned.
scan_text_for_pii(text, ner_ok) ==
    IF ~ner_ok THEN <<>>
    ELSE LET kept == SelectSeq(ner_pipeline(text),
                               LAMBDA e : e.score >= CONFIDENCE_THRESHOLD)
         IN  [i \in 1..Len(kept) |->
                Finding(kept[i].entity_group, round4(kept[i].score), 0)]

\* -------------------------------------------------------------- extraction
\* "" is the empty sequence of units.
get_text_from_docx(doc) == IF doc.corrupt THEN <<>> ELSE doc.units

\* One page that cannot be extracted ends the loop in the except branch.
get_text_from_pdf(doc) ==
    IF doc.corrupt \/ \E i \in 1..Len(doc.units) : ~doc.units[i].readable
    THEN <<>>
    ELSE doc.units

read_text(doc) == doc.units

\* content_to_scan.strip() is not empty.
NotBlank(text) == \E i \in 1..Len(text) : ~text[i].blank

\* The extraction helper gave up on the document.
ExtractionFailed(name, doc) ==
    \/ suffix[name] \in {".docx", ".xlsx"} /\ doc.corrupt
    \/ /\ suffix[name] = ".pdf"
       /\ doc.corrupt \/ \E i \in 1..Len(doc.units) : ~doc.units[i].readable

\* ------------------------------------------------------- level derivation
high_risk_types ==
    {"PERSON", "EMAIL", "PHONE_NUMBER", "CREDIT_CARD", "SSN",
     "US_DRIVER_LICENSE", "MEDICAL_LICENSE", "IBAN_CODE"}

medium_risk_types == {"LOCATION", "ORGANIZATION", "IP_ADDRESS", "URL", "DATE_TIME"}

\* Mutant of sensitivity_of: the medium-risk test comes first.
sensitivity_of_medium_first(found) ==
    IF found = <<>> THEN "Clean"
    ELSE IF \E i \in 1..Len(found) : found[i].type \in medium_risk_types
    THEN "Internal"
    ELSE IF \E i \in 1..Len(found) : found[i].type \in high_risk_types
    THEN "Confidential"
    ELSE "Internal"

\* Mutant of sensitivity_of: findings of a type in neither set count for
\* nothing.
sensitivity_of_unlisted_clean(found) ==
    IF found = <<>> THEN "Clean"
    ELSE IF \E i \in 1..Len(found) : found[i].type \in high_risk_types
    THEN "Confidential"
    ELSE IF \E i \in 1..Len(found) : found[i].type \in medium_risk_types
    THEN "Internal"
    ELSE "Clean"

\* The level scan_file_task derives from found_pii_overall.
sensitivity_of(found) ==
    IF found = <<>> THEN "Clean"
    ELSE IF \E i \in 1..Len(found) : found[i].type \in high_risk_types
    THEN "Confidential"
    ELSE IF \E i \in 1..Len(found) : found[i].type \in medium_risk_types
    THEN "Internal"
    ELSE "Internal"

\* --------------------------------------------------------- scan_file_task
\* The cells of a workbook, scanned one by one; a finding carries the index
\* of its cell as location.
RECURSIVE scan_cells(_, _, _)
scan_cells(cells, i, ner_ok) ==
    IF i > Len(cells) THEN <<>>
    ELSE LET pii_in_cell ==
                IF cells[i].blank THEN <<>>
                ELSE scan_text_for_pii(<<cells[i]>>, ner_ok)
         IN  [k \in 1..Len(pii_in_cell) |-> [pii_in_cell[k] EXCEPT !.location = i]]
             \o scan_cells(cells, i + 1, ner_ok)

Scanned(outcome, level, found, calls) ==
    [outcome |-> outcome, level |-> level, found |-> found, calls |-> calls]

\* Mutant of scan_document: a suffix without a branch of its own is read as
\* text.
scan_document_text_fallback(name, doc, ner_ok) ==
    IF suffix[name] = ".xlsx"
    THEN IF doc.corrupt THEN Scanned("raised", "-", <<>>, 0)
         ELSE LET found == scan_cells(doc.units, 1, ner_ok)
              IN  Scanned("scanned", sensitivity_of(found), found,
                          Cardinality({ i \in 1..Len(doc.units) : ~doc.units[i].blank }))
    ELSE LET content_to_scan ==
                CASE suffix[name] = ".docx" -> get_text_from_docx(doc)
                  [] suffix[name] = ".pdf" -> get_text_from_pdf(doc)
                  [] OTHER -> read_text(doc)
             found == IF NotBlank(content_to_scan)
                      THEN scan_text_for_pii(content_to_scan, ner_ok)
                      ELSE <<>>
         IN  Scanned("scanned", sensitivity_of(found), found,
                     IF NotBlank(content_to_scan) THEN 1 ELSE 0)

\* Lines 67-116 of scan_file_task: from the suffix to the level that is to
\* be committed.  outcome "raised": an exception leaves the task, nothing is
\* committed.  calls counts the calls of scan_text_for_pii.
scan_document(name, doc, ner_ok) ==
    IF suffix[name] \in {".txt", ".docx", ".pdf"}
    THEN LET content_to_scan ==
                CASE suffix[name] = ".txt" -> read_text(doc)
                  [] suffix[name] = ".docx" -> get_text_from_docx(doc)
                  [] OTHER -> get_text_from_pdf(doc)
             found == IF NotBlank(content_to_scan)
                      THEN scan_text_for_pii(content_to_scan, ner_ok)
                      ELSE <<>>
         IN  Scanned("scanned", sensitivity_of(found), found,
                     IF NotBlank(content_to_scan) THEN 1 ELSE 0)
    ELSE IF suffix[name] = ".xlsx"
    THEN IF doc.corrupt THEN Scanned("raised", "-", <<>>, 0)
         ELSE LET found == scan_cells(doc.units, 1, ner_ok)
              IN  Scanned("scanned", sensitivity_of(found), found,
                          Cardinality({ i \in 1..Len(doc.units) : ~doc.units[i].blank }))
    ELSE Scanned("unsupported", "Unsupported", <<>>, 0)

\* One run of scan_file_task.  pc is the step the run takes next; before is
\* the sensitivity_level of the row as the run's session loaded it;
\* ner_failed says that a call of ner_pipeline raised in this run.
Job(f, name, pc, before, ner_failed, result, overlapped) ==
    [file_id |-> f, filename |-> name, pc |-> pc, before |-> before,
     ner_failed |-> ner_failed, outcome |-> result.outcome, level |-> result.level,
     found |-> result.found, calls |-> result.calls, overlapped |-> overlapped]

NotScanned(outcome) == Scanned(outcome, "-", <<>>, 0)

\* Lines 57-65: the row and the file are looked up.
load(f) ==
    IF f \notin DOMAIN files
    THEN Job(f, "-", "done", "-", FALSE, NotScanned("no_record"), FALSE)
    ELSE IF f \notin disk
    THEN Job(f, files[f].filename, "done", files[f].sensitivity_level, FALSE,
             NotScanned("no_file"), FALSE)
    ELSE Job(f, files[f].filename, "classify", files[f].sensitivity_level,
             FALSE, NotScanned("-"), FALSE)

\* Lines 67-116.
classify(job, ner_ok) ==
    LET result == scan_document(job.filename, docs[job.file_id], ner_ok)
    IN  Job(job.file_id, job.filename,
            IF result.outcome = "raised" THEN "done" ELSE "persist",
            job.before, result.calls > 0 /\ ~ner_ok, result, job.overlapped)

\* Mutant of persist: a row that another run has already classified is
\* raised by one level instead of being overwritten.
persist_escalating(job) ==
    LET f == job.file_id IN
    IF f \notin DOMAIN files THEN files
    ELSE IF files[f].sensitivity_level = "Internal" /\ job.level = "Internal"
    THEN [files EXCEPT ![f].sensitivity_level = "Confidential"]
    ELSE IF job.level = job.before THEN files
    ELSE [files EXCEPT ![f].sensitivity_level = job.level]

\* db.commit() of lines 97 and 119: the files table after it.  The session
\* issues UPDATE files SET sensitivity_level = ... WHERE id = ... when the
\* attribute differs from the value it loaded; an UPDATE that matches no row
\* raises and changes nothing.
persist(job) ==
    LET f == job.file_id IN
    IF f \notin DOMAIN files THEN files
    ELSE IF job.level = job.before THEN files
    ELSE [files EXCEPT ![f].sensitivity_level = job.level]

\* ----------------------------------------------------------------- actions
\* One request runs from its first query to its response; the next request
\* is taken once the response has left (Respond).  MaxLog caps the length of
\* activity_logs.
\* written is the content of a file the request adds to the upload
\* directory.
\* Mutant of Store: the audit rows of a file go with the file.
StorePurging(e, written) ==
    /\ files' = e.files
    /\ shares' = e.shares
    /\ disk' = e.disk
    /\ queue' = e.queue
    /\ nextId' = e.nextId
    /\ log' = SelectSeq(log, LAMBDA row : row.resource_id \in DOMAIN e.files) \o e.logs
    /\ last' = e.obs
    /\ docs' = [f \in e.disk |-> IF f \in DOMAIN docs THEN docs[f] ELSE written]
    /\ UNCHANGED <<jobs, requests>>

Store(e, written) ==
    /\ files' = e.files
    /\ shares' = e.shares
    /\ disk' = e.disk
    /\ queue' = e.queue
    /\ nextId' = e.nextId
    /\ log' = log \o e.logs
    /\ last' = e.obs
    /\ docs' = [f \in e.disk |-> IF f \in DOMAIN docs THEN docs[f] ELSE written]
    /\ UNCHANGED <<jobs, requests>>

Commit(e, written) ==
    /\ Len(log) + Len(e.logs) <= MaxLog
    /\ Store(e, written)

Apply(e) == Commit(e, EmptyDocument)

Upload ==
    /\ last = Idle
    /\ nextId <= MaxFiles
    /\ \E u \in Users, name \in FileNames, write_ok \in BOOLEAN :
          Commit(upload_file(u, name, write_ok), Sample[name])

Download ==
    /\ last = Idle
    /\ \E u \in Users, f \in FileIds, reply \in Replies :
          Apply(download_file(u, f, reply))

View ==
    /\ last = Idle
    /\ \E u \in Users, f \in FileIds, reply \in Replies,
          render_ok \in BOOLEAN :
          Apply(view_file(u, f, reply, render_ok))

Delete ==
    /\ last = Idle
    /\ \E u \in Users, f \in FileIds, remove_ok \in BOOLEAN :
          Apply(delete_file(u, f, remove_ok))

Share ==
    /\ last = Idle
    /\ \E u \in Users, f \in FileIds, target \in Users \cup {UnknownUser},
          permission \in Permission :
          Apply(share_file(u, f, target, permission))

Respond ==
    /\ last # Idle
    /\ last' = Idle
    /\ UNCHANGED <<files, shares, disk, queue, log, nextId, docs, jobs, requests>>

\* -------------------------------------------------------------------- list
\* The file ids of S, newest first (created_at grows with the id).
RECURSIVE Descending(_)
Descending(S) ==
    IF S = {} THEN <<>>
    ELSE LET newest == CHOOSE f \in S : \A g \in S : g <= f
         IN  <<newest>> \o Descending(S \ {newest})

\* list_files_for_user with the default limit, which no store here reaches:
\* the response is the FileResponse of every visible file, here its
\* filename and sensitivity_level.
list_files_for_user(u) ==
    LET visible ==
            IF role[u] = "admin" THEN DOMAIN files
            ELSE { f \in DOMAIN files : files[f].owner_id = u \/ HasShare(f, u) }
        order == Descending(visible)
        rows == [i \in 1..Len(order) |-> files[order[i]].filename]
        levels == [i \in 1..Len(order) |-> files[order[i]].sensitivity_level]
    IN  ReadOnly(Plain("list", u, 0, FALSE, Http(200, rows \o levels, "-"), 0),
                 <<>>)

ListFiles ==
    /\ last = Idle
    /\ \E u \in Users : Apply(list_files_for_user(u))

\* ------------------------------------------------------------------ worker
\* Mutant of ScanFileTask: a run that does not find the file on disk marks
\* the row Unsupported.
ScanFileTaskMarkingMissing ==
    /\ last = Idle
    /\ Len(jobs) < MaxJobs
    /\ \E i \in 1..Len(queue), ner_ok \in BOOLEAN :
          LET loaded == load(queue[i])
              classified == IF loaded.pc = "done" THEN loaded
                            ELSE classify(loaded, ner_ok)
          IN  /\ jobs' = Append(jobs, [classified EXCEPT !.pc = "done"])
              /\ files' = IF classified.pc = "persist" THEN persist(classified)
                          ELSE IF loaded.outcome = "no_file"
                          THEN [files EXCEPT ![queue[i]].sensitivity_level = "Unsupported"]
                          ELSE files
    /\ UNCHANGED <<shares, disk, queue, log, nextId, last, docs, requests>>

\* One run of scan_file_task from its first query to db.close().  The
\* broker delivers a message at least once: a delivered message can be
\* delivered again.
ScanFileTask ==
    /\ last = Idle
    /\ Len(jobs) < MaxJobs
    /\ \E i \in 1..Len(queue), ner_ok \in BOOLEAN :
          LET loaded == load(queue[i])
              classified == IF loaded.pc = "done" THEN loaded
                            ELSE classify(loaded, ner_ok)
          IN  /\ jobs' = Append(jobs, [classified EXCEPT !.pc = "done"])
              /\ files' = IF classified.pc = "persist" THEN persist(classified)
                          ELSE files
    /\ UNCHANGED <<shares, disk, queue, log, nextId, last, docs, requests>>

InFlight(f) == { k \in 1..Len(jobs) : jobs[k].file_id = f /\ jobs[k].pc # "done" }

\* The three steps of a run, for runs that overlap.
Load ==
    /\ Len(jobs) < MaxJobs
    /\ \E i \in 1..Len(queue) :
          LET f == queue[i]
              marked == [k \in 1..Len(jobs) |->
                            IF k \in InFlight(f)
                            THEN [jobs[k] EXCEPT !.overlapped = TRUE]
                            ELSE jobs[k]]
          IN  jobs' = Append(marked, [load(f) EXCEPT !.overlapped = InFlight(f) # {}])
    /\ UNCHANGED <<files, shares, disk, queue, log, nextId, last, docs, requests>>

Classify ==
    /\ \E k \in 1..Len(jobs), ner_ok \in BOOLEAN :
          /\ jobs[k].pc = "classify"
          /\ jobs' = [jobs EXCEPT ![k] = classify(@, ner_ok)]
    /\ UNCHANGED <<files, shares, disk, queue, log, nextId, last, docs, requests>>

Persist ==
    /\ \E k \in 1..Len(jobs) :
          /\ jobs[k].pc = "persist"
          /\ files' = persist(jobs[k])
          /\ jobs' = [jobs EXCEPT ![k].pc = "done"]
    /\ UNCHANGED <<shares, disk, queue, log, nextId, last, docs, requests>>

\* The state after u has uploaded one file and received the response.
Uploaded(u, name, doc) ==
    /\ files = (1 :> save_upload_file(u, name))
    /\ shares = <<>>
    /\ disk = {1}
    /\ queue = <<1>>
    /\ log = << log_activity(u, "UPLOAD", "SUCCESS", None, UserAgent, 1,
                             <<"Filename: ", name>>, is_attack[u]) >>
    /\ nextId = 2
    /\ last = Idle
    /\ docs = (1 :> doc)
    /\ jobs = <<>>
    /\ requests = <<>>

\* Runs of the worker, one after the other, on every document a file can be.
InitScan == \E name \in Names : \E doc \in Documents(name) : Uploaded("alice", name, doc)

SpecScan == InitScan /\ [][ScanFileTask]_vars

\* Runs of the worker that overlap.
InitRace == \E name \in Names : Uploaded("alice", name, Sample[name])

NextRace == Load \/ Classify \/ Persist

SpecRace == InitRace /\ [][NextRace]_vars

\* ------------------------------------------------------ overlapping shares
\* share_file is a plain def: FastAPI runs each call in a thread of its
\* pool, with a session of its own, so the queries of one call and the
\* commit of another interleave.  A request is what a call holds between its
\* queries and its commit: share is the position of the FileShare row that
\* .first() returned, 0 for None.
share_query(u, f, target, permission) ==
    [user |-> u, file |-> f, target |-> target, permission |-> permission,
     share |-> IF HasShare(f, target)
               THEN CHOOSE i \in ShareRows(f, target) :
                        \A j \in ShareRows(f, target) : i <= j
               ELSE 0,
     pc |-> "commit"]

\* Lines 215-218: the calls that pass the owner and target lookups.
ShareQuery ==
    /\ Len(requests) < MaxInFlight
    /\ \E u \in Users, f \in DOMAIN files, target \in Users,
          permission \in Permission :
          /\ files[f].owner_id = u
          /\ requests' = Append(requests, share_query(u, f, target, permission))
    /\ UNCHANGED <<files, shares, disk, queue, log, nextId, last, docs, jobs>>

\* Lines 222-233: update or add, commit, log.
ShareCommit ==
    /\ \E k \in 1..Len(requests) :
          LET r == requests[k] IN
          /\ r.pc = "commit"
          /\ shares' = IF r.share # 0
                       THEN [shares EXCEPT ![r.share].permission = r.permission]
                       ELSE Append(shares,
                                   [file_id |-> r.file, user_id |-> r.target,
                                    permission |-> r.permission])
          /\ log' = Append(log,
                           log_activity(r.user, "SHARE", "SUCCESS", None, None,
                                        r.file,
                                        <<"Shared with ", r.target, " as ",
                                          r.permission>>,
                                        FALSE))
          /\ requests' = [requests EXCEPT ![k].pc = "done"]
    /\ UNCHANGED <<files, disk, queue, nextId, last, docs, jobs>>

InitShares == Uploaded("alice", "report.txt", Sample["report.txt"])

NextShares == ShareQuery \/ ShareCommit

SpecShares == InitShares /\ [][NextShares]_vars

\* ------------------------------------------------- rows and files that go
\* A file leaves the upload directory without the application (the volume is
\* cleaned or lost); the row stays.
Unlink ==
    /\ last = Idle
    /\ \E f \in disk :
          /\ disk' = disk \ {f}
          /\ docs' = [g \in disk \ {f} |-> docs[g]]
    /\ UNCHANGED <<files, shares, queue, log, nextId, last, jobs, requests>>

\* delete_file, taken while activity_logs has at most MaxLog rows.
DeleteStored ==
    /\ last = Idle
    /\ Len(log) <= MaxLog
    /\ \E u \in Users, f \in DOMAIN files, remove_ok \in BOOLEAN :
          Store(delete_file(u, f, remove_ok), EmptyDocument)

NextGone == DeleteStored \/ Unlink \/ ScanFileTask \/ Respond

SpecGone == InitRace /\ [][NextGone]_vars

\* The requests and the worker together, with a policy engine that answers
\* every call with a well-formed allow or deny.
Decisions ==
    { ObjectReply(200, "true", List(<<>>)),
      ObjectReply(200, "false", List(<<"insufficient permission">>)) }

DownloadDecided ==
    /\ last = Idle
    /\ \E u \in Users, f \in FileIds, reply \in Decisions :
          Apply(download_file(u, f, reply))

ViewDecided ==
    /\ last = Idle
    /\ \E u \in Users, f \in FileIds, reply \in Decisions :
          Apply(view_file(u, f, reply, TRUE))

NextPlatform ==
    Upload \/ ListFiles \/ DownloadDecided \/ ViewDecided \/ Delete \/ Share
    \/ Respond \/ ScanFileTask

SpecPlatform == Init /\ [][NextPlatform]_vars

Next == Upload \/ Download \/ View \/ Delete \/ Share \/ Respond

Spec == Init /\ [][Next]_vars

\* ================================================================== claims
\* The ActivityLog rows the last request committed.
LastEntries == SubSeq(log, Len(log) - last.logged + 1, Len(log))

Reading == last.op \in {"download", "view"}

\* The request reached an existing File row.
OnFile == Reading /\ last.existed

\* Capability NONE, read from the store: the actor is no administrator, does
\* not own the file and has no FileShare row on it.  (download_file and
\* view_file leave files and shares as they found them.)
Stranger ==
    /\ OnFile
    /\ last.file \in DOMAIN files
    /\ role[last.user] # "admin"
    /\ files[last.file].owner_id # last.user
    /\ ~HasShare(last.file, last.user)

\* evaluate_request returned a decision that is not truthy, with a list of
\* reasons.
PolicyDenial ==
    /\ OnFile
    /\ last.called
    /\ last.verdict.raised = "-"
    /\ ~Truthy(last.verdict.allow)
    /\ last.verdict.reasons.kind = "list"

Rejected == last.response.status \in {403, 404} /\ last.response.content = "-"

\* C1: whenever the call to the policy engine fails with a connection error,
\* a timeout or a non-2xx status, evaluate_request returns allow = false with
\* the single unreachable reason and the handler rejects the request.
C1_FailClosedOnTransportError ==
    (/\ OnFile
     /\ last.called
     /\ \/ last.reply.transport \in {"ConnectionError", "Timeout"}
        \/ /\ last.reply.transport = "response"
           /\ ~(200 <= last.reply.status /\ last.reply.status < 300))
    => /\ last.verdict = FailClosed
       /\ last.response.status = 403
       /\ last.response.content = "-"

\* C2: for every 2xx response whose body is unparsable or not of the shape
\* {result: {allow: bool, deny_reasons: [string]}}, evaluate_request returns
\* allow = false with the fixed internal-error reason and raises nothing.
C2_FailClosedOnMalformedResponse ==
    (OnFile /\ last.called /\ last.reply \in Malformed)
    => last.verdict = FailClosed

\* C3: a download or view request by a non-administrator who neither owns
\* the file nor holds a share on it never calls the policy engine: no
\* AccessContext is built and no reply is consumed.
C3_NoneNeverReachesPolicyEngine ==
    Stranger => /\ ~last.called
                /\ last.context = NoContext
                /\ last.reply = NoReply
                /\ last.verdict = NoVerdict

C3_Witness ==
    /\ Stranger
    /\ last.op = "view"
    /\ last.response.status = 403
    /\ Len(log) = 2

\* C4: a view or download request whose capability is NONE gets the same
\* outcome as a request for an absent file: 404 "File not found", never 403.
C4_NoneLooksAbsent ==
    Stranger => last.response = Http(404, <<"File not found">>, "-")

\* An unauthorized delete: the actor is neither administrator nor owner.
UnauthorizedDelete ==
    /\ last.op = "delete"
    /\ last.existed
    /\ last.response.status = 403

\* C5: every rejecting decision (capability NONE on view or download, a
\* policy denial, an unauthorized delete) has appended exactly one
\* ActivityLog row for the request when the rejection is observed; for
\* capability NONE that row has status FAILURE.
C5_EveryRejectionAudited ==
    (Stranger \/ PolicyDenial \/ UnauthorizedDelete)
    => /\ Rejected
       /\ last.logged = 1
       /\ LastEntries[1].username = last.user
       /\ LastEntries[1].resource_id = last.file
       /\ Stranger => LastEntries[1].status = "FAILURE"

\* C6: when the policy engine allows and the content is returned, exactly
\* one SUCCESS ActivityLog row has been appended for the request.
C6_EveryAllowAudited ==
    (OnFile /\ last.response.content # "-")
    => /\ last.logged = 1
       /\ LastEntries[1].status = "SUCCESS"
       /\ LastEntries[1].username = last.user
       /\ LastEntries[1].resource_id = last.file

\* C7: for an administrator and an existing file, download and view resolve
\* the capability ADMIN_OVERRIDE, whether or not the administrator owns the
\* file or holds a share on it.
C7_AdminAlwaysOverride ==
    (OnFile /\ role[last.user] = "admin")
    => /\ last.capability = "ADMIN_OVERRIDE"
       /\ last.called => last.context.user_permission = "ADMIN_OVERRIDE"

\* An administrator who holds a "view" share downloads.
C7_Witness ==
    /\ OnFile
    /\ last.op = "download"
    /\ role[last.user] = "admin"
    /\ last.file \in DOMAIN files
    /\ files[last.file].owner_id # last.user
    /\ HasShare(last.file, last.user)
    /\ FirstShare(last.file, last.user).permission = "view"
    /\ last.capability = "ADMIN_OVERRIDE"

\* C8: a request resolved to ADMIN_OVERRIDE still calls the policy engine,
\* with user_permission = ADMIN_OVERRIDE, and a deny verdict (the fail-closed
\* one included) rejects it: 403, no content, one DENIED_BY_POLICY row.
C8_AdminStillPolicyChecked ==
    (OnFile /\ role[last.user] = "admin")
    => /\ last.called
       /\ last.context.user_permission = "ADMIN_OVERRIDE"
       /\ last.context.user_role = "admin"
       /\ PolicyDenial
            => /\ last.response.status = 403
               /\ last.response.content = "-"
               /\ last.logged = 1
               /\ LastEntries[1].status = "DENIED_BY_POLICY"
       /\ last.response.content # "-"
            => last.verdict.raised = "-" /\ Truthy(last.verdict.allow)

\* The administrator is rejected by the fail-closed verdict.
C8_Witness ==
    /\ OnFile
    /\ role[last.user] = "admin"
    /\ last.reply \in TransportFailures
    /\ last.verdict = FailClosed
    /\ last.response.status = 403

\* The reasons occur in the text in the order of the list.
InOrder(text, items) ==
    \E pos \in [1..Len(items) -> 1..Len(text)] :
        /\ \A i \in 1..Len(items) : text[pos[i]] = items[i]
        /\ \A i, j \in 1..Len(items) : i < j => pos[i] < pos[j]

AttemptedAction == IF last.op = "download" THEN "DOWNLOAD_ATTEMPT"
                   ELSE "VIEW_ATTEMPT"

\* C9: on a policy denial of a download or view the request is rejected and
\* the ActivityLog row appended for it has status DENIED_BY_POLICY, names
\* the attempted action and carries every deny reason, in verdict order.
C9_DenialAuditCarriesReasons ==
    PolicyDenial
    => /\ last.response.status = 403
       /\ last.response.content = "-"
       /\ last.logged = 1
       /\ LastEntries[1].status = "DENIED_BY_POLICY"
       /\ LastEntries[1].action = AttemptedAction
       /\ LastEntries[1].username = last.user
       /\ LastEntries[1].resource_id = last.file
       /\ InOrder(LastEntries[1].details, last.verdict.reasons.items)

C9_Witness ==
    /\ PolicyDenial
    /\ last.op = "download"
    /\ last.verdict.reasons.items
         = <<"outside business hours", "insufficient permission">>
    /\ LastEntries[1].details
         = <<"Role: ", "employee", ". Reasons: ", "outside business hours",
             "; ", "insufficient permission", " [SIM_ATTACK]">>

\* C10: on every policy denial, of a view as of a download, the denial
\* returned to the caller carries the verdict's deny reasons.
C10_DenialResponseCarriesReasons ==
    (PolicyDenial /\ last.reply \in WellFormed)
    => /\ last.response.status = 403
       /\ InOrder(last.response.detail, last.verdict.reasons.items)

\* C11: every verdict evaluate_request returns has an empty reasons list
\* exactly when its allow is true: no deny without a reason, no allow with
\* reasons.
C11_ReasonsEmptyIffAllow ==
    (last.called /\ last.verdict.raised = "-")
    => (last.verdict.reasons = List(<<>>) <=> last.verdict.allow = "True")

\* The request changed or released the resource.
TookEffect ==
    /\ last.op \in {"download", "view", "delete"}
    /\ last.existed
    /\ IF last.op = "delete" THEN last.response.status = 200
       ELSE last.response.content # "-"

\* C12: no delete, view or download of a resource takes effect in a request
\* in which the policy engine was not consulted or did not return allow.
C12_EveryActionPolicyChecked ==
    TookEffect
    => /\ last.called
       /\ last.verdict.raised = "-"
       /\ Truthy(last.verdict.allow)

\* ------------------------------------------------------------ classification
Level(f) == files[f].sensitivity_level

\* The step is a run of scan_file_task on f: no request is observed, one
\* run is added to the worker's log, and it is a run on f that committed the
\* level f has now.
WorkerWrote(f) ==
    /\ last' = last
    /\ Len(jobs') = Len(jobs) + 1
    /\ jobs'[Len(jobs')].file_id = f
    /\ jobs'[Len(jobs')].level = files'[f].sensitivity_level

\* C13: a File row is created with sensitivity 'pending'; no request handler
\* (upload, list, download, view, share, delete) changes the sensitivity of
\* an existing row; only a run of scan_file_task does, and a run writes the
\* level of its one file, once.
C13_OnlyWorkerWritesSensitivity ==
    [][ /\ \A f \in DOMAIN files' \ DOMAIN files :
              files'[f].sensitivity_level = "pending"
        /\ \A f \in DOMAIN files' \cap DOMAIN files :
              files'[f].sensitivity_level # files[f].sensitivity_level
              => /\ WorkerWrote(f)
                 /\ \A g \in (DOMAIN files' \cap DOMAIN files) \ {f} :
                       files'[g].sensitivity_level = files[g].sensitivity_level
      ]_vars

\* The owner shares a file that the worker has classified.
C13_Witness ==
    /\ last.op = "share"
    /\ last.response.status = 200
    /\ last.file \in DOMAIN files
    /\ Level(last.file) = "Confidential"
    /\ \E k \in 1..Len(jobs) :
          jobs[k].file_id = last.file /\ jobs[k].outcome = "scanned"

Rank(level) ==
    CASE level = "Clean" -> 0
      [] level = "Internal" -> 1
      [] level = "Confidential" -> 2

HighRisk(found) == \E i \in 1..Len(found) : found[i].type \in high_risk_types

MediumRisk(found) == \E i \in 1..Len(found) : found[i].type \in medium_risk_types

\* Every finding one more retained entity can add.
MoreFindings ==
    { Finding(g, round4(sc), 0) :
        g \in EntityGroups, sc \in { x \in Scores : x >= CONFIDENCE_THRESHOLD } }

\* The retained findings of all cells of a workbook.
CellFindings(doc) ==
    { Finding(e.entity_group, round4(e.score), i) :
        <<i, e>> \in { <<j, x>> \in (1..Len(doc.units)) \X { Entity(g, sc) : g \in EntityGroups, sc \in Scores } :
                        /\ doc.units[j].entities = <<x>>
                        /\ x.score >= CONFIDENCE_THRESHOLD } }

Range(seq) == { seq[i] : i \in 1..Len(seq) }

\* C14: the level of a scanned document is derived from its retained
\* findings (for a workbook, the findings of all its cells together): a
\* high-risk finding gives Confidential, otherwise a medium-risk finding
\* gives Internal, no finding gives Clean; one more finding never lowers the
\* level, and one more high-risk finding raises Internal to Confidential.
C14_LevelDerivation ==
    \A k \in 1..Len(jobs) :
        jobs[k].outcome = "scanned"
        => LET found == jobs[k].found
               level == jobs[k].level
           IN  /\ HighRisk(found) => level = "Confidential"
               /\ (~HighRisk(found) /\ MediumRisk(found)) => level = "Internal"
               /\ found = <<>> => level = "Clean"
               /\ k = Len(jobs) => Level(jobs[k].file_id) = level
               /\ (suffix[jobs[k].filename] = ".xlsx" /\ ~jobs[k].ner_failed)
                    => Range(found) = CellFindings(docs[jobs[k].file_id])
               /\ \A more \in MoreFindings :
                     LET raised == sensitivity_of(Append(found, more))
                     IN  /\ Rank(raised) >= Rank(level)
                         /\ (level = "Internal" /\ more.type \in high_risk_types)
                              => raised = "Confidential"

\* A workbook with a medium-risk finding in its first cell and a high-risk
\* finding in its second.
C14_Witness ==
    \E k \in 1..Len(jobs) :
        /\ suffix[jobs[k].filename] = ".xlsx"
        /\ Len(jobs[k].found) = 2
        /\ jobs[k].found[1].type = "LOCATION"
        /\ jobs[k].found[2].type = "PERSON"
        /\ jobs[k].found[2].location = 2
        /\ jobs[k].level = "Confidential"
        /\ Level(jobs[k].file_id) = "Confidential"

\* The run found its row and its file.
Ran(job) == job.pc = "done" /\ job.outcome \notin {"no_record", "no_file"}

\* A step of the run failed: the extraction helper could not read the
\* document, or the detector raised.
Failed(job) ==
    ExtractionFailed(job.filename, docs[job.file_id]) \/ job.ner_failed

\* C15: a run in which text extraction or entity detection fails leaves the
\* sensitivity level as the run found it, and commits neither Clean nor any
\* other level.
C15_FailedJobLeavesLevel ==
    (jobs # <<>> /\ Ran(jobs[Len(jobs)]) /\ Failed(jobs[Len(jobs)]))
    => Level(jobs[Len(jobs)].file_id) = jobs[Len(jobs)].before

ScannedSuffixes == {".txt", ".docx", ".pdf", ".xlsx"}

\* C16: a run on a document whose suffix is none of .txt, .docx, .pdf and
\* .xlsx commits the level Unsupported and calls the detector not once.
C16_UnsupportedWithoutDetector ==
    \A k \in 1..Len(jobs) :
        (Ran(jobs[k]) /\ suffix[jobs[k].filename] \notin ScannedSuffixes)
        => /\ jobs[k].outcome = "unsupported"
           /\ jobs[k].level = "Unsupported"
           /\ jobs[k].calls = 0
           /\ jobs[k].found = <<>>
           /\ k = Len(jobs) => Level(jobs[k].file_id) = "Unsupported"

C16_Witness ==
    /\ Len(jobs) = 1
    /\ Ran(jobs[1])
    /\ jobs[1].filename = "photo.png"
    /\ jobs[1].before = "pending"
    /\ Level(jobs[1].file_id) = "Unsupported"

\* The entities the detector reports for the units of a document.
Detected(doc) == UNION { Range(doc.units[i].entities) : i \in 1..Len(doc.units) }

\* C17: every finding a scan retains has a score of at least 0.95; every
\* entity the detector reports with a score of at least 0.95 is retained,
\* with its type; a document all of whose entities are below 0.95 is
\* classified Clean.
C17_ThresholdRetention ==
    \A k \in 1..Len(jobs) :
        jobs[k].outcome = "scanned"
        => LET doc == docs[jobs[k].file_id]
               found == jobs[k].found
           IN  /\ \A i \in 1..Len(found) : found[i].score * 10 >= CONFIDENCE_THRESHOLD
               /\ (~Failed(jobs[k]))
                    => \A e \in Detected(doc) :
                          e.score >= CONFIDENCE_THRESHOLD
                          => \E i \in 1..Len(found) :
                                /\ found[i].type = e.entity_group
                                /\ found[i].score = round4(e.score)
               /\ (\A e \in Detected(doc) : e.score < CONFIDENCE_THRESHOLD)
                    => /\ found = <<>>
                       /\ jobs[k].level = "Clean"
                       /\ k = Len(jobs) => Level(jobs[k].file_id) = "Clean"

\* A workbook whose one entity, in its second cell, has the score 0.80.
C17_Witness ==
    /\ Len(jobs) = 1
    /\ jobs[1].outcome = "scanned"
    /\ jobs[1].filename = "sheet.xlsx"
    /\ docs[jobs[1].file_id].units = <<Words, Mention("PERSON", 80000)>>
    /\ jobs[1].calls = 2
    /\ ~jobs[1].ner_failed
    /\ Level(jobs[1].file_id) = "Clean"

\* C18: a run that follows a run on the same file, the document unchanged
\* and the detector answering in both, leaves the level the first run left
\* and changes nothing else in the store.
C18_RescanIdempotent ==
    [][ (/\ jobs # <<>>
         /\ Len(jobs') = Len(jobs) + 1
         /\ jobs'[Len(jobs')].file_id = jobs[Len(jobs)].file_id
         /\ Ran(jobs[Len(jobs)])
         /\ ~jobs[Len(jobs)].ner_failed
         /\ ~jobs'[Len(jobs')].ner_failed)
        => /\ files' = files
           /\ jobs'[Len(jobs')].level = jobs[Len(jobs)].level
           /\ UNCHANGED <<shares, disk, queue, log, nextId, docs>>
      ]_vars

\* Two runs on a document with a medium-risk finding.
C18_Witness ==
    /\ Len(jobs) = 2
    /\ jobs[1].file_id = jobs[2].file_id
    /\ jobs[1].calls = 1 /\ jobs[2].calls = 1
    /\ ~jobs[1].ner_failed /\ ~jobs[2].ner_failed
    /\ jobs[1].before = "pending"
    /\ jobs[2].before = "Internal"
    /\ Level(jobs[2].file_id) = "Internal"

\* What one run alone leaves in sensitivity_level of a row that is pending.
SingleRun(f) ==
    LET result == scan_document(files[f].filename, docs[f], TRUE)
    IN  IF result.outcome = "raised" THEN "pending" ELSE result.level

RunsOn(f) == { k \in 1..Len(jobs) : jobs[k].file_id = f }

\* C19: when runs on one file overlap, in whatever order their load,
\* classify and persist steps are taken, the file ends with the level one
\* run alone produces: a commit overwrites the level, it does not combine
\* the results of the runs.
C19_OverlappingRunsOverwrite ==
    \A f \in DOMAIN files :
        (/\ \A k \in RunsOn(f) : jobs[k].pc = "done" /\ ~jobs[k].ner_failed
         /\ \E k \in RunsOn(f) : jobs[k].overlapped)
        => Level(f) = SingleRun(f)

\* Both runs loaded the pending row before either committed.
C19_Witness ==
    /\ Len(jobs) = 2
    /\ jobs[1].overlapped /\ jobs[2].overlapped
    /\ jobs[1].pc = "done" /\ jobs[2].pc = "done"
    /\ jobs[1].before = "pending" /\ jobs[2].before = "pending"
    /\ jobs[1].level = "Internal" /\ jobs[2].level = "Internal"
    /\ Level(jobs[1].file_id) = "Internal"

\* C20: no (file, grantee) pair ever has more than one FileShare row, also
\* when share requests for the pair overlap.
C20_OneGrantPerPair ==
    \A f \in FileIds, u \in Users : Cardinality(ShareRows(f, u)) <= 1

\* The units of a document whose text can be extracted and is not blank.
Extractable(doc) ==
    { i \in 1..Len(doc.units) : doc.units[i].readable /\ ~doc.units[i].blank }

\* C21: when one page of a .pdf that the library can open cannot be
\* extracted, the text of the other pages is still scanned: the detector is
\* called, and what it reports at 0.95 or above on those pages is retained.
C21_PartialExtraction ==
    \A k \in 1..Len(jobs) :
        LET doc == docs[jobs[k].file_id] IN
        (/\ jobs[k].outcome = "scanned"
         /\ suffix[jobs[k].filename] = ".pdf"
         /\ ~doc.corrupt
         /\ Extractable(doc) # {})
        => /\ jobs[k].calls >= 1
           /\ ~jobs[k].ner_failed
                => \A i \in Extractable(doc) :
                      \A e \in Range(doc.units[i].entities) :
                          e.score >= CONFIDENCE_THRESHOLD
                          => \E n \in 1..Len(jobs[k].found) :
                                jobs[k].found[n].type = e.entity_group

\* The run the step adds to the worker's log.
NewJob == jobs'[Len(jobs')]

\* C22: a run that finds the File row gone, or the file gone from the
\* upload directory, ends without extracting and without calling the
\* detector, and leaves the sensitivity level of every row as it was.
C22_AbortLeavesLevels ==
    [][ (/\ Len(jobs') = Len(jobs) + 1
         /\ NewJob.file_id \notin DOMAIN files \/ NewJob.file_id \notin disk)
        => /\ NewJob.outcome
                = (IF NewJob.file_id \notin DOMAIN files THEN "no_record"
                   ELSE "no_file")
           /\ NewJob.calls = 0
           /\ NewJob.found = <<>>
           /\ NewJob.level = "-"
           /\ files' = files
      ]_vars

\* A first run that did not find the file on disk: the row is pending.
C22_Witness ==
    /\ Len(jobs) = 1
    /\ jobs[1].outcome = "no_file"
    /\ jobs[1].file_id \in DOMAIN files
    /\ jobs[1].file_id \notin disk
    /\ Level(jobs[1].file_id) = "pending"

\* C24: when the owner or an administrator deletes a file and os.remove
\* fails, the row is deleted all the same, a PARTIAL_FAILURE row and then
\* the SUCCESS row are appended to the audit log, and the caller gets the
\* success response.
C24_PartialFailureOnDelete ==
    [][ (/\ last = Idle
         /\ last'.op = "delete"
         /\ last'.file \in DOMAIN files
         /\ role[last'.user] = "admin" \/ files[last'.file].owner_id = last'.user
         /\ last'.file \in disk
         /\ last'.file \in disk')
        => /\ last'.file \notin DOMAIN files'
           /\ last'.response.status = 200
           /\ Len(log') = Len(log) + 2
           /\ SubSeq(log', 1, Len(log)) = log
           /\ log'[Len(log) + 1].status = "PARTIAL_FAILURE"
           /\ log'[Len(log) + 1].resource_id = last'.file
           /\ log'[Len(log) + 2].status = "SUCCESS"
           /\ log'[Len(log) + 2].action = "DELETE"
      ]_vars

\* The administrator deleted alice's file; the file is still on disk.
C24_Witness ==
    /\ last.op = "delete"
    /\ last.user = "root"
    /\ last.response.status = 200
    /\ last.file \notin DOMAIN files
    /\ last.file \in disk
    /\ log[Len(log) - 1].status = "PARTIAL_FAILURE"

\* C23: a delete request by a non-administrator who does not own the file
\* gets the outcome of a delete request for an id that no file has: 404
\* "File not found".
C23_DeleteByStrangerLooksAbsent ==
    (/\ last.op = "delete"
     /\ last.existed
     /\ last.file \in DOMAIN files
     /\ role[last.user] # "admin"
     /\ files[last.file].owner_id # last.user)
    => /\ last.response = Http(404, <<"File not found">>, "-")
       /\ last.logged = 0

\* C25: the AccessContext a download or view request sends is built from
\* the store as the request finds it: resource_sensitivity is the level the
\* worker has committed, user_permission the capability of the actor now,
\* and the verdict is the one the engine gave for this request.
C25_ContextFreshPerRequest ==
    (Reading /\ last.called /\ last.file \in DOMAIN files)
    => /\ last.context.resource_sensitivity = Level(last.file)
       /\ last.context.user_permission
            = (IF last.op = "download"
               THEN download_permission(last.user, last.file)
               ELSE view_permission(last.user, last.file))
       /\ last.context.user_id = last.user
       /\ last.context.user_role = role[last.user]
       /\ last.context.action = (IF last.op = "download" THEN "download" ELSE "read")
       /\ last.verdict = evaluate_request(last.reply)

\* A download after the worker has classified the file Confidential.
C25_Witness ==
    /\ last.op = "download"
    /\ last.called
    /\ last.file \in DOMAIN files
    /\ last.context.resource_sensitivity = "Confidential"
    /\ \E k \in 1..Len(jobs) :
          jobs[k].file_id = last.file /\ jobs[k].before = "pending"
          /\ jobs[k].level = "Confidential"

C27_AuditAppendOnly ==
    [][ /\ Len(log') >= Len(log)
        /\ SubSeq(log', 1, Len(log)) = log
      ]_vars

\* The file is uploaded, scanned and deleted: its rows are still there.
C27_Witness ==
    /\ Len(log) = 2
    /\ log[1].action = "UPLOAD"
    /\ log[2].action = "DELETE"
    /\ log[1].resource_id \notin DOMAIN files
    /\ jobs # <<>>

\* C28: download_file and view_file return content only in a request whose
\* capability is OWNER, a share permission or ADMIN_OVERRIDE and in which
\* evaluate_request returned allow = true.
C28_NoReleaseWithoutAllow ==
    (Reading /\ last.response.content # "-")
    => /\ last.capability \in {"OWNER", "ADMIN_OVERRIDE"} \cup Permission
       /\ last.called
       /\ last.verdict.raised = "-"
       /\ last.verdict.allow = "True"

\* C29: a share request by anyone but the owner of the file gets 404 "File
\* not found"; a share request that is rejected leaves file_shares and the
\* audit log as they were; only the owner's request changes file_shares.
C29_OnlyOwnerShares ==
    [][ (last = Idle /\ last'.op = "share")
        => /\ (last'.file \in DOMAIN files
               /\ files[last'.file].owner_id # last'.user)
                => last'.response = Http(404, <<"File not found">>, "-")
           /\ last'.response.status # 200
                => /\ last'.response.status = 404
                   /\ shares' = shares
                   /\ log' = log
           /\ shares' # shares
                => /\ last'.file \in DOMAIN files
                   /\ files[last'.file].owner_id = last'.user
      ]_vars

\* The administrator, who holds a share on alice's file, tries to share it.
C29_Witness ==
    /\ last.op = "share"
    /\ last.user = "root"
    /\ last.file \in DOMAIN files
    /\ files[last.file].owner_id = "alice"
    /\ HasShare(last.file, "root")
    /\ last.response = Http(404, <<"File not found">>, "-")
    /\ Len(shares) = 1

\* C30: retained findings none of whose types is in the high-risk or the
\* medium-risk set give Internal; the worker commits Clean exactly when no
\* finding is retained.
C30_UnlistedTypesGiveInternal ==
    \A k \in 1..Len(jobs) :
        jobs[k].outcome = "scanned"
        => /\ (/\ jobs[k].found # <<>>
               /\ ~HighRisk(jobs[k].found)
               /\ ~MediumRisk(jobs[k].found))
                => jobs[k].level = "Internal"
           /\ jobs[k].level = "Clean" <=> jobs[k].found = <<>>
           /\ k = Len(jobs) => (Level(jobs[k].file_id) = "Clean" <=> jobs[k].found = <<>>)

C30_Witness ==
    /\ Len(jobs) = 1
    /\ jobs[1].outcome = "scanned"
    /\ jobs[1].found = <<Finding("FIRSTNAME", 9500, 0)>>
    /\ Level(jobs[1].file_id) = "Internal"

====
